---- MODULE Spec2Model ----
(***************************************************************************)
(* Verification model of the mcp-rest-api server.                          *)
(*                                                                         *)
(*   Spec       the test_request handler of src/src/index.ts with its      *)
(*              RequestLimiter (admission gate), concurrent calls          *)
(*              interleaved at the handler's suspension points.            *)
(*   TokenSpec  TokenProvider.getToken of the dynamic-auth server variant  *)
(*              (src/unnamed/part_002), called by concurrent handlers.     *)
(*   SanSpec    sanitizeHeaders of src/src/index.ts with its module-level  *)
(*              result cache, called with a sequence of header mappings.   *)
(*                                                                         *)
(* The model clock counts ticks of TickMs milliseconds; Date.now() is      *)
(* clock * TickMs.                                                         *)
(***************************************************************************)
EXTENDS Integers, Sequences, FiniteSets, TLC

(***************************************************************************)
(* Bounds of the model.                                                    *)
(***************************************************************************)
\* number of tool calls the host keeps in flight at once
NumCalls == 3
\* maxConcurrent of the limiter (CONFIG.MAX_CONCURRENT_REQUESTS, scaled down)
MaxConcurrent == 2
\* maxRequestsPerWindow of the limiter (CONFIG.MAX_REQUESTS_PER_WINDOW, scaled down)
MaxRequestsPerWindow == 3
\* the poll bound of acquire(), "attempts > 100" in the source, scaled down
MaxAttempts == 1
\* milliseconds per tick of the model clock
TickMs == 30000
\* last tick of the model clock
MaxTicks == 2

\* number of handlers that call getToken at once
NumTokenCalls == 3
\* number of provider invocations in one run
MaxInvocations == 2
\* the numeric exp claim (seconds) the token function hands out
ExpSoon == 90
\* number of entries of a header mapping
MaxHeaders == 2
\* number of pieces of an endpoint string
MaxEndpointTokens == 3
\* number of trailing slashes of a host argument
MaxHostSlashes == 2
\* number of UTF-16 code units of a response body
MaxBodyUnits == 4
\* largest RESPONSE_SIZE_LIMIT, in bytes
MaxSizeLimit == 5
\* number of characters of an input string
MaxInputChars == 2
\* number of entries the sanitizer cache takes (the program takes 100)
MaxCacheEntries == 1

(***************************************************************************)
(* Program constants.                                                      *)
(***************************************************************************)
\* refreshSkewMs of getToken
RefreshSkewMs == 60000
\* CONFIG.RATE_LIMIT_WINDOW
WindowMs == 60000

Calls == 1..NumCalls

VARIABLES
    \* ---- process configuration (environment) ----
    baseUrlSet,        \* process.env.REST_BASE_URL is set
    privateAllowed,    \* NODE_ENV = development or ALLOW_PRIVATE_NETWORKS = true
    \* ---- RequestLimiter ----
    activeRequests,    \* RequestLimiter.activeRequests
    requestHistory,    \* RequestLimiter.requestHistory: clientId -> timestamps
    clock,             \* ticks of Date.now()
    \* ---- one test_request handler invocation per call ----
    pc,                \* position of the handler
    request,           \* request.params of the call (name and arguments)
    attempts,          \* local variable attempts of acquire()
    outcome,           \* what the handler returned or threw
    envelope,          \* status and error flags of the result the handler returned
    acquireCalls,      \* number of acquire() calls the handler made
    acquireOk,         \* number of acquire() calls that succeeded
    releaseCalls,      \* number of release() calls the handler made
    dispatched,        \* number of axiosInstance.request() calls
    releaseSeen,       \* release() has been called since the limiter was constructed
    \* ---- TokenProvider ----
    token,             \* TokenProvider.token
    tokenExpiresAt,    \* TokenProvider.tokenExpiresAt
    inflight,          \* TokenProvider.inflight: the caller whose acquisition it is
    nextSerial,        \* serial number of the next provider invocation
    processAlive,      \* the Node process has not been ended by an unhandled rejection
    \* ---- one getToken call per handler ----
    tpc,               \* position of the getToken call
    topts,             \* the call carries non-empty options
    tinv,              \* the caller whose in-flight promise the call awaits
    tserial,           \* serial of the provider invocation the call started
    tresult,           \* what getToken returned
    \* ---- header sanitizer ----
    customHeaders,     \* getCustomHeaders(): the HEADER_* environment variables
    apiKeyHeaderName,  \* AUTH.APIKEY_HEADER_NAME
    sanitizedHeadersCache, \* the module-level Map sanitizedHeadersCache
    sanIn,             \* headers argument of the last sanitizeHeaders call
    sanFlag,           \* isFromOptionalParams of the last call
    sanOut,            \* what the last call returned
    sanAgain,          \* the last call was given the previous call's result
    \* ---- sanitizeHeaders of the dynamic-auth variant ----
    dynIn,             \* headers argument of the last call
    dynFlag,           \* isFromOptionalParams of the last call
    dynOut,            \* what the last call returned
    \* ---- header merge and credential injection of the handler ----
    variant,           \* "index" (src/src/index.ts) or "dynamic" (src/unnamed/part_002)
    AUTH,              \* the AUTH_* environment variables ("" when not set)
    headerEnv,         \* getCustomHeaders(): the HEADER_* variables with their values
    callerHeaders,     \* request.params.arguments.headers
    configHeaders,     \* config.headers as handed to axiosInstance.request
    authMethod,        \* authMethod of the envelope
    mergeStage,        \* "idle", "sent", or "tokenError" (getToken threw)
    \* ---- validation and resolution of the request URL ----
    REST_BASE_URL,     \* process.env.REST_BASE_URL as a string (<<>> when not set)
    urlArgs,           \* request.params.arguments as received
    urlStage,          \* "idle", "InvalidParams" (validation failed) or "sent"
    fullUrl,           \* config.url as handed to axiosInstance.request
    urlMessage,        \* message of the McpError the validation threw ("" when none)
    \* ---- truncation of the response body ----
    RESPONSE_SIZE_LIMIT, \* the size limit in bytes
    bodyStr,           \* the response body as a string of UTF-16 code units
    responseBody,      \* responseObj.response.body
    truncated,         \* responseObj.validation.truncated (a set: empty when absent)
    truncStage,        \* "idle" or "shaped"
    \* ---- sanitization of the strings of a call ----
    customValue,       \* value of a HEADER_* environment variable
    cleanArgs,         \* endpoint, host, header value of the call as received
    outgoing,          \* the same strings as they reach axiosInstance.request
    cleanStage         \* "idle" or "sent"

gateVars == <<activeRequests, requestHistory, clock>>
callVars == <<pc, request, attempts, outcome, envelope, acquireCalls, acquireOk,
              releaseCalls, dispatched, releaseSeen>>
envVars == <<baseUrlSet, privateAllowed>>
tokenVars == <<token, tokenExpiresAt, inflight, nextSerial, processAlive,
               tpc, topts, tinv, tserial, tresult>>
sanVars == <<customHeaders, apiKeyHeaderName, sanitizedHeadersCache,
             sanIn, sanFlag, sanOut, sanAgain>>
dynSanVars == <<dynIn, dynFlag, dynOut>>
\* the state of request construction, outside the admission gate
mergeVars == <<variant, AUTH, headerEnv, callerHeaders, configHeaders, authMethod,
               mergeStage>>
urlVars == <<REST_BASE_URL, urlArgs, urlStage, fullUrl, urlMessage>>
truncVars == <<RESPONSE_SIZE_LIMIT, bodyStr, responseBody, truncated, truncStage>>
cleanVars == <<customValue, cleanArgs, outgoing, cleanStage>>
reqVars == <<dynSanVars, mergeVars, urlVars, truncVars, cleanVars>>
vars == <<envVars, gateVars, callVars, tokenVars, sanVars, reqVars>>

Now == clock * TickMs

(***************************************************************************)
(* Tool arguments, by the features isValidEndpointArgs looks at.           *)
(***************************************************************************)
NoRequest == [name |-> "none"]

GoodArgs ==
    [shape |-> "object", method |-> "GET", endpointIsString |-> TRUE,
     endpointTooLong |-> FALSE, endpointFullUrl |-> FALSE,
     headers |-> "absent", host |-> "absent"]

\* the argument records the calls are drawn from: GoodArgs and one field off it
ArgSamples ==
    { GoodArgs,
      [GoodArgs EXCEPT !.endpointFullUrl = TRUE],
      [GoodArgs EXCEPT !.method = "TRACE"],
      [GoodArgs EXCEPT !.host = "private"] }

\* request.params of the calls the host sends
Requests ==
    [name : {"test_request"}, args : ArgSamples]
        \cup {[name |-> "other_tool", args |-> GoodArgs]}

\* isValidEndpointArgs without its check of the method
isValidEndpointArgs_NoMethodCheck(args, baseSet, privOk) ==
    IF args.shape # "object" THEN "false"
    ELSE IF ~args.endpointIsString THEN "false"
    ELSE IF args.endpointTooLong THEN "throw"
    ELSE IF args.headers = "notObject" THEN "false"
    ELSE IF args.headers \in {"tooMany", "nonString", "badName", "longValue"} THEN "throw"
    ELSE IF ~baseSet /\ ~args.endpointFullUrl THEN "throw"
    ELSE IF baseSet /\ args.endpointFullUrl THEN "throw"
    ELSE IF args.host \in {"tooLong", "unparsable", "badScheme"} THEN "throw"
    ELSE IF args.host = "private" /\ ~privOk THEN "throw"
    ELSE "ok"

\* isValidEndpointArgs without its check of a full URL under a configured base
isValidEndpointArgs_NoFullUrlCheck(args, baseSet, privOk) ==
    IF args.shape # "object" THEN "false"
    ELSE IF args.method \notin {"GET", "POST", "PUT", "DELETE", "PATCH"} THEN "false"
    ELSE IF ~args.endpointIsString THEN "false"
    ELSE IF args.endpointTooLong THEN "throw"
    ELSE IF args.headers = "notObject" THEN "false"
    ELSE IF args.headers \in {"tooMany", "nonString", "badName", "longValue"} THEN "throw"
    ELSE IF ~baseSet /\ ~args.endpointFullUrl THEN "throw"
    ELSE IF args.host \in {"tooLong", "unparsable", "badScheme"} THEN "throw"
    ELSE IF args.host = "private" /\ ~privOk THEN "throw"
    ELSE "ok"

\* isValidEndpointArgs without its check of a path under no configured base
isValidEndpointArgs_NoBaseCheck(args, baseSet, privOk) ==
    IF args.shape # "object" THEN "false"
    ELSE IF args.method \notin {"GET", "POST", "PUT", "DELETE", "PATCH"} THEN "false"
    ELSE IF ~args.endpointIsString THEN "false"
    ELSE IF args.endpointTooLong THEN "throw"
    ELSE IF args.headers = "notObject" THEN "false"
    ELSE IF args.headers \in {"tooMany", "nonString", "badName", "longValue"} THEN "throw"
    ELSE IF baseSet /\ args.endpointFullUrl THEN "throw"
    ELSE IF args.host \in {"tooLong", "unparsable", "badScheme"} THEN "throw"
    ELSE IF args.host = "private" /\ ~privOk THEN "throw"
    ELSE "ok"

\* isValidEndpointArgs: "ok", "false" (returns false) or "throw" (McpError InvalidParams)
isValidEndpointArgs(args, baseSet, privOk) ==
    IF args.shape # "object" THEN "false"
    ELSE IF args.method \notin {"GET", "POST", "PUT", "DELETE", "PATCH"} THEN "false"
    ELSE IF ~args.endpointIsString THEN "false"
    ELSE IF args.endpointTooLong THEN "throw"
    ELSE IF args.headers = "notObject" THEN "false"
    ELSE IF args.headers \in {"tooMany", "nonString", "badName", "longValue"} THEN "throw"
    ELSE IF ~baseSet /\ ~args.endpointFullUrl THEN "throw"
    ELSE IF baseSet /\ args.endpointFullUrl THEN "throw"
    ELSE IF args.host \in {"tooLong", "unparsable", "badScheme"} THEN "throw"
    ELSE IF args.host = "private" /\ ~privOk THEN "throw"
    ELSE "ok"

(***************************************************************************)
(* RequestLimiter                                                          *)
(***************************************************************************)
ClientId == "default"

\* requestHistory.get(clientId) || []
HistoryOf(history, clientId) ==
    IF clientId \in DOMAIN history THEN history[clientId] ELSE <<>>

\* requests.filter((timestamp) => now - timestamp < this.windowMs)
InWindow(requests, now) ==
    SelectSeq(requests, LAMBDA timestamp : now - timestamp < WindowMs)

checkRateLimit(history, clientId, now) ==
    Len(InWindow(HistoryOf(history, clientId), now)) < MaxRequestsPerWindow

recordRequest(history, clientId, now) ==
    [c \in (DOMAIN history) \cup {clientId} |->
        IF c = clientId
        THEN InWindow(Append(HistoryOf(history, clientId), now), now)
        ELSE history[c]]

\* the loop condition of acquire() off by one: active > maxConcurrent
NoFreeSlot_OffByOne(active) == active > MaxConcurrent

\* the loop condition of acquire(): no slot is free
NoFreeSlot(active) == active >= MaxConcurrent

\* the give-up condition of acquire()
PollsUsedUp(n) == n > MaxAttempts

\* release() without its clamp at zero: activeRequests - 1
releaseValue_NoClamp(active) == active - 1

\* release(): Math.max(0, activeRequests - 1)
releaseValue(active) == IF active - 1 > 0 THEN active - 1 ELSE 0

cleanupHistory(history, now) ==
    LET kept == {c \in DOMAIN history : Len(InWindow(history[c], now)) > 0}
    IN  [c \in kept |-> InWindow(history[c], now)]

(***************************************************************************)
(* The result of the handler: the HTTP status of the response, the          *)
(* validation.isError of the envelope, the isError flag of the tool result. *)
(***************************************************************************)
\* the HTTP status codes the transport answers with (validateStatus accepts all)
StatusCodes == {200, 400, 500}

NoEnvelope == [statusCode |-> 0, validationIsError |-> FALSE, isError |-> FALSE]

\* a boundary slip of the status test: response.status > 400
isErrorStatus_Above(status) == status > 400

\* response.status >= 400
isErrorStatus(status) == status >= 400

\* responseObj of a response with the given status
responseEnvelope(status) ==
    [statusCode |-> status, validationIsError |-> isErrorStatus(status),
     isError |-> FALSE]

\* the result the catch block returns
errorEnvelope == [statusCode |-> 0, validationIsError |-> FALSE, isError |-> TRUE]

(***************************************************************************)
(* The CallToolRequestSchema handler, one action per synchronous section.  *)
(***************************************************************************)
Finish(c, result) ==
    /\ pc' = [pc EXCEPT ![c] = "done"]
    /\ outcome' = [outcome EXCEPT ![c] = result]

\* acquire() succeeds: this.activeRequests++; this.recordRequest(clientId)
Admit(c) ==
    /\ activeRequests' = activeRequests + 1
    /\ requestHistory' = recordRequest(requestHistory, ClientId, Now)
    /\ acquireOk' = [acquireOk EXCEPT ![c] = 1]
    /\ pc' = [pc EXCEPT ![c] = "admitted"]
    /\ outcome' = [outcome EXCEPT ![c] = "none"]

\* acquire() throws: the handler resumes in its catch block
Reject(c, error) ==
    /\ pc' = [pc EXCEPT ![c] = "catch"]
    /\ outcome' = [outcome EXCEPT ![c] = error]
    /\ acquireOk' = [acquireOk EXCEPT ![c] = 0]
    /\ UNCHANGED <<activeRequests, requestHistory>>

\* The handler from its entry to the first suspension: tool name, validation,
\* request construction, and acquire() up to its first await. A call that has
\* returned makes room for the next call of the host.
Receive(c) ==
    /\ pc[c] \in {"idle", "done"}
    /\ \E req \in Requests :
        /\ request' = [request EXCEPT ![c] = req]
        /\ releaseCalls' = [releaseCalls EXCEPT ![c] = 0]
        /\ dispatched' = [dispatched EXCEPT ![c] = 0]
        /\ attempts' = [attempts EXCEPT ![c] = 0]
        /\ envelope' = [envelope EXCEPT ![c] = NoEnvelope]
        /\ UNCHANGED clock
        /\ IF req.name # "test_request"
           THEN /\ Finish(c, "MethodNotFound")
                /\ acquireCalls' = [acquireCalls EXCEPT ![c] = 0]
                /\ acquireOk' = [acquireOk EXCEPT ![c] = 0]
                /\ UNCHANGED <<activeRequests, requestHistory>>
           ELSE IF isValidEndpointArgs(req.args, baseUrlSet, privateAllowed) # "ok"
           THEN /\ Finish(c, "InvalidParams")
                /\ acquireCalls' = [acquireCalls EXCEPT ![c] = 0]
                /\ acquireOk' = [acquireOk EXCEPT ![c] = 0]
                /\ UNCHANGED <<activeRequests, requestHistory>>
           ELSE /\ acquireCalls' = [acquireCalls EXCEPT ![c] = 1]
                /\ IF ~checkRateLimit(requestHistory, ClientId, Now)
                   THEN Reject(c, "RateLimited")
                   ELSE IF NoFreeSlot(activeRequests)
                   THEN /\ pc' = [pc EXCEPT ![c] = "waiting"]
                        /\ outcome' = [outcome EXCEPT ![c] = "none"]
                        /\ acquireOk' = [acquireOk EXCEPT ![c] = 0]
                        /\ UNCHANGED <<activeRequests, requestHistory>>
                   ELSE Admit(c)
    /\ UNCHANGED <<tokenVars, sanVars, reqVars, envVars, releaseSeen>>

\* The 10 ms timer of acquire() fires: attempts++, then the loop is re-entered.
PollWake(c) ==
    /\ pc[c] = "waiting"
    /\ IF ~NoFreeSlot(activeRequests)
       THEN /\ Admit(c)
            /\ attempts' = [attempts EXCEPT ![c] = @ + 1]
       ELSE IF PollsUsedUp(attempts[c] + 1)
       THEN /\ Reject(c, "Busy")
            /\ attempts' = [attempts EXCEPT ![c] = 0]
       ELSE /\ attempts' = [attempts EXCEPT ![c] = @ + 1]
            /\ UNCHANGED <<pc, outcome, activeRequests, requestHistory, acquireOk>>
    /\ UNCHANGED <<tokenVars, sanVars, reqVars, envVars, clock, request, acquireCalls, releaseCalls, dispatched,
                   releaseSeen, envelope>>

\* "await acquire()" resumes: this.axiosInstance.request(config) is called.
Dispatch(c) ==
    /\ pc[c] = "admitted"
    /\ pc' = [pc EXCEPT ![c] = "transport"]
    /\ dispatched' = [dispatched EXCEPT ![c] = @ + 1]
    /\ attempts' = [attempts EXCEPT ![c] = 0]
    /\ UNCHANGED <<tokenVars, sanVars, reqVars, envVars, gateVars, request, outcome, acquireCalls,
                   acquireOk, releaseCalls, releaseSeen, envelope>>

\* The transport returns a response (any status): release(), then the response
\* is shaped into the envelope and returned.
TransportReturn(c) ==
    /\ pc[c] = "transport"
    /\ activeRequests' = releaseValue(activeRequests)
    /\ releaseCalls' = [releaseCalls EXCEPT ![c] = @ + 1]
    /\ Finish(c, "envelope")
    /\ \E status \in StatusCodes :
          envelope' = [envelope EXCEPT ![c] = responseEnvelope(status)]
    /\ releaseSeen' = TRUE
    /\ UNCHANGED <<tokenVars, sanVars, reqVars, envVars, requestHistory, clock, request, attempts,
                   acquireCalls, acquireOk, dispatched>>

\* The transport fails (DNS, connection, TLS, timeout): catch block.
TransportFail(c) ==
    /\ pc[c] = "transport"
    /\ activeRequests' = releaseValue(activeRequests)
    /\ releaseCalls' = [releaseCalls EXCEPT ![c] = @ + 1]
    /\ Finish(c, "errorEnvelope")
    /\ envelope' = [envelope EXCEPT ![c] = errorEnvelope]
    /\ releaseSeen' = TRUE
    /\ UNCHANGED <<tokenVars, sanVars, reqVars, envVars, requestHistory, clock, request, attempts,
                   acquireCalls, acquireOk, dispatched>>

\* The catch block after acquire() threw: release(), generic error envelope.
CatchRejected(c) ==
    /\ pc[c] = "catch"
    /\ activeRequests' = releaseValue(activeRequests)
    /\ releaseCalls' = [releaseCalls EXCEPT ![c] = @ + 1]
    /\ pc' = [pc EXCEPT ![c] = "done"]
    /\ envelope' = [envelope EXCEPT ![c] = errorEnvelope]
    /\ releaseSeen' = TRUE
    /\ UNCHANGED <<tokenVars, sanVars, reqVars, envVars, requestHistory, clock, request, attempts, outcome,
                   acquireCalls, acquireOk, dispatched>>

\* setInterval(() => this.cleanupHistory(), this.windowMs)
Sweep ==
    /\ requestHistory' = cleanupHistory(requestHistory, Now)
    /\ requestHistory' # requestHistory
    /\ UNCHANGED <<tokenVars, sanVars, reqVars, envVars, activeRequests, clock, callVars>>

\* Date.now() advances
Tick ==
    /\ clock < MaxTicks
    /\ clock' = clock + 1
    /\ UNCHANGED <<tokenVars, sanVars, reqVars, envVars, activeRequests, requestHistory, callVars>>

(***************************************************************************)
(* TokenProvider (the dynamic-auth variant of the server).  An optional    *)
(* field is a set with at most one element.  A token carries the serial of *)
(* the acquireToken() invocation that produced it and the auth context it  *)
(* was acquired for, and the part of its text getJwtExpMs looks at.        *)
(***************************************************************************)

TCalls == 1..NumTokenCalls

\* the only call site passes forceRefresh = false
ForceRefreshValues == {FALSE}

\* what the configured token function can return: an opaque string, a
\* JWT-shaped string whose payload has no finite numeric exp (here a string
\* exp), and a JWT-shaped string with a numeric exp claim (in seconds)
TokenShapes ==
    {[parts |-> 1, expType |-> "undefined", exp |-> 0],
     [parts |-> 3, expType |-> "string", exp |-> 0],
     [parts |-> 3, expType |-> "number", exp |-> ExpSoon]}

getJwtExpMs(tok) ==
    IF tok.parts < 2 THEN {}
    ELSE IF tok.expType # "number" THEN {}
    ELSE {tok.exp * 1000}

isValid_NoSkew(tok, expiresAt, now) ==
    /\ tok # {}
    /\ (expiresAt = {} \/ \A e \in expiresAt : now < e)

\* const isValid = this.token && (this.tokenExpiresAt === undefined ||
\*                                now < this.tokenExpiresAt - refreshSkewMs)
isValid(tok, expiresAt, now) ==
    /\ tok # {}
    /\ (expiresAt = {} \/ \A e \in expiresAt : now < e - RefreshSkewMs)

\* if (!forceRefresh && !hasRequestOptions && isValid) return this.token
returnsCached(forceRefresh, hasRequestOptions, valid) ==
    ~forceRefresh /\ ~hasRequestOptions /\ valid

awaitsInflight_AnyContext(forceRefresh, hasRequestOptions, infl) ==
    ~forceRefresh /\ infl # {}

\* if (!forceRefresh && !hasRequestOptions && this.inflight) return await this.inflight
awaitsInflight(forceRefresh, hasRequestOptions, infl) ==
    ~forceRefresh /\ ~hasRequestOptions /\ infl # {}

writesShared_Always(hasRequestOptions) == TRUE

\* if (!hasRequestOptions) guards the writes of inflight, token and tokenExpiresAt
writesShared(hasRequestOptions) == ~hasRequestOptions

TResting == {"idle", "returned", "failed"}

\* getToken() up to its first await
GetToken(c, forceRefresh, hasRequestOptions) ==
    /\ processAlive
    /\ tpc[c] \in TResting
    /\ topts' = [topts EXCEPT ![c] = hasRequestOptions]
    /\ IF returnsCached(forceRefresh, hasRequestOptions,
                        isValid(token, tokenExpiresAt, Now))
       THEN /\ tpc' = [tpc EXCEPT ![c] = "returned"]
            /\ tresult' = [tresult EXCEPT ![c] = token]
            /\ tserial' = [tserial EXCEPT ![c] = 0]
            /\ tinv' = [tinv EXCEPT ![c] = 0]
            /\ UNCHANGED <<inflight, nextSerial>>
       ELSE IF awaitsInflight(forceRefresh, hasRequestOptions, inflight)
       THEN /\ tpc' = [tpc EXCEPT ![c] = "awaitInflight"]
            /\ tinv' = [tinv EXCEPT ![c] = CHOOSE s \in inflight : TRUE]
            /\ tserial' = [tserial EXCEPT ![c] = 0]
            /\ tresult' = [tresult EXCEPT ![c] = {}]
            /\ UNCHANGED <<inflight, nextSerial>>
       ELSE /\ nextSerial <= MaxInvocations
            /\ tpc' = [tpc EXCEPT ![c] = "awaitOwn"]
            /\ tserial' = [tserial EXCEPT ![c] = nextSerial]
            /\ nextSerial' = nextSerial + 1
            /\ tinv' = [tinv EXCEPT ![c] = 0]
            /\ tresult' = [tresult EXCEPT ![c] = {}]
            /\ inflight' = IF writesShared(hasRequestOptions)
                           THEN {nextSerial} ELSE inflight
    /\ UNCHANGED <<token, tokenExpiresAt, processAlive, reqVars, envVars, gateVars, callVars,
                   sanVars>>

\* the calls suspended on the inflight promise of invocation s
Waiters(s) == {d \in TCalls : tpc[d] = "awaitInflight" /\ tinv[d] = s}

\* acquireToken() of call c resolves: the finally callback and the
\* continuation of getToken run back to back, then the waiters resume
ProviderResolve(c, shape) ==
    /\ processAlive
    /\ tpc[c] = "awaitOwn"
    /\ LET tok == [serial |-> tserial[c],
                   ctx |-> IF topts[c] THEN "options" ELSE "shared",
                   parts |-> shape.parts, expType |-> shape.expType,
                   exp |-> shape.exp]
           done == IF writesShared(topts[c])
                   THEN {c} \cup Waiters(tserial[c]) ELSE {c}
       IN  /\ tpc' = [d \in TCalls |-> IF d \in done THEN "returned" ELSE tpc[d]]
           /\ tresult' = [d \in TCalls |-> IF d \in done THEN {tok} ELSE tresult[d]]
           /\ IF writesShared(topts[c])
              THEN /\ inflight' = {}
                   /\ token' = {tok}
                   /\ tokenExpiresAt' = getJwtExpMs(tok)
              ELSE UNCHANGED <<inflight, token, tokenExpiresAt>>
    /\ UNCHANGED <<nextSerial, processAlive, topts, tinv, tserial, reqVars, envVars,
                   gateVars, callVars, sanVars>>

\* the promise stored in this.inflight, tokenPromise.finally(...), rejects
\* with nobody awaiting it: an unhandled rejection
inflightUnhandled(hasRequestOptions, waiters) ==
    writesShared(hasRequestOptions) /\ waiters = {}

\* what the runtime does with an unhandled rejection: it goes on (a warning
\* only) or, with no 'unhandledRejection' listener installed, ends the process
AliveAfterUnhandled == {TRUE, FALSE}

\* acquireToken() of call c rejects (the token function throws or returns
\* an empty token): the error reaches the initiator and the waiters
ProviderFail(c) ==
    /\ processAlive
    /\ tpc[c] = "awaitOwn"
    /\ IF inflightUnhandled(topts[c], Waiters(tserial[c]))
       THEN processAlive' \in AliveAfterUnhandled
       ELSE processAlive' = processAlive
    /\ LET done == IF writesShared(topts[c])
                   THEN {c} \cup Waiters(tserial[c]) ELSE {c}
       IN  /\ tpc' = [d \in TCalls |-> IF d \in done THEN "failed" ELSE tpc[d]]
           /\ tresult' = [d \in TCalls |-> IF d \in done THEN {} ELSE tresult[d]]
           /\ inflight' = IF writesShared(topts[c]) THEN {} ELSE inflight
    /\ UNCHANGED <<token, tokenExpiresAt, nextSerial, topts, tinv, tserial,
                   reqVars, envVars, gateVars, callVars, sanVars>>

(***************************************************************************)
(* sanitizeHeaders and its module-level cache.  A header mapping is a      *)
(* sequence of [name, value] pairs with distinct names, in the insertion   *)
(* order Object.keys() and Object.entries() report.                        *)
(***************************************************************************)

\* the credential header in two letter cases, the API-key header, a configured
\* safe header, a configured header that is not safe, and a response header
\* that is none of these
HeaderNames == {"Authorization", "AUTHORIZATION", "X-Key", "Accept", "X-Trace", "etag"}
HeaderValues == {"a", "b"}
Redacted == "[REDACTED]"

\* key.toLowerCase()
ToLowerCase(key) ==
    CASE key = "Authorization" -> "authorization"
      [] key = "AUTHORIZATION" -> "authorization"
      [] key = "Accept" -> "accept"
      [] key = "X-Trace" -> "x-trace"
      [] key = "X-Key" -> "x-key"
      [] key = "HTTPS://" -> "https://"
      [] OTHER -> key

SAFE_HEADERS ==
    {"accept", "accept-language", "content-type", "user-agent", "cache-control",
     "if-match", "if-none-match", "if-modified-since", "if-unmodified-since"}

SENSITIVE_HEADERS ==
    {"authorization", "cookie", "set-cookie", "x-api-key", "x-auth-token",
     "proxy-authorization", "www-authenticate"}

\* Object.keys(headers)
KeysOf(headers) == [i \in 1..Len(headers) |-> headers[i].name]

\* the header mappings with at most MaxHeaders entries
HeaderMaps ==
    {h \in UNION {[1..n -> [name : HeaderNames, value : HeaderValues]] :
                     n \in 0..MaxHeaders} :
        \A i, j \in 1..Len(h) : i # j => h[i].name # h[j].name}

\* the loop body without the comparison with AUTH.APIKEY_HEADER_NAME
sanitizeEntry_NoApiKeyCheck(entry, isFromOptionalParams, custom, apiKeyName) ==
    LET lowerKey == ToLowerCase(entry.name) IN
    IF lowerKey \in SENSITIVE_HEADERS
    THEN <<[name |-> entry.name, value |-> Redacted]>>
    ELSE IF isFromOptionalParams
    THEN <<entry>>
    ELSE IF lowerKey = "authorization"
    THEN <<[name |-> entry.name, value |-> Redacted]>>
    ELSE IF entry.name \in custom
    THEN <<[name |-> entry.name,
            value |-> IF lowerKey \in SAFE_HEADERS THEN entry.value ELSE Redacted]>>
    ELSE <<>>

\* one turn of the loop over Object.entries(headers): the entries it adds
sanitizeEntry(entry, isFromOptionalParams, custom, apiKeyName) ==
    LET lowerKey == ToLowerCase(entry.name) IN
    IF lowerKey \in SENSITIVE_HEADERS
    THEN <<[name |-> entry.name, value |-> Redacted]>>
    ELSE IF isFromOptionalParams
    THEN <<entry>>
    ELSE IF lowerKey = "authorization"
            \/ (apiKeyName # "" /\ lowerKey = ToLowerCase(apiKeyName))
    THEN <<[name |-> entry.name, value |-> Redacted]>>
    ELSE IF entry.name \in custom
    THEN <<[name |-> entry.name,
            value |-> IF lowerKey \in SAFE_HEADERS THEN entry.value ELSE Redacted]>>
    ELSE <<>>

\* the loop of sanitizeHeaders: what it computes when the cache is not used
RECURSIVE sanitizeLoop(_, _, _, _)
sanitizeLoop(headers, isFromOptionalParams, custom, apiKeyName) ==
    IF headers = <<>> THEN <<>>
    ELSE sanitizeEntry(Head(headers), isFromOptionalParams, custom, apiKeyName)
         \o sanitizeLoop(Tail(headers), isFromOptionalParams, custom, apiKeyName)

\* const cacheKey = isFromOptionalParams ? `optional_${...}` : Object.keys(headers).join(',')
cacheKey(headers, isFromOptionalParams) ==
    [optional |-> isFromOptionalParams, names |-> KeysOf(headers)]

\* sanitizedHeadersCache.has(cacheKey)
cacheHas(cache, key) == \E e \in cache : e.key = key

\* sanitizedHeadersCache.get(cacheKey)
cacheGet(cache, key) == (CHOOSE e \in cache : e.key = key).value

\* sanitizeHeaders(headers, isFromOptionalParams): the result, and the cache after it
sanitizeHeaders(headers, isFromOptionalParams, cache, custom, apiKeyName) ==
    LET key == cacheKey(headers, isFromOptionalParams) IN
    IF ~isFromOptionalParams /\ cacheHas(cache, key)
    THEN [result |-> cacheGet(cache, key), cache |-> cache]
    ELSE LET sanitized == sanitizeLoop(headers, isFromOptionalParams, custom,
                                       apiKeyName)
         IN  [result |-> sanitized,
              cache |-> IF ~isFromOptionalParams
                           /\ Cardinality(cache) < MaxCacheEntries
                        THEN cache \cup {[key |-> key, value |-> sanitized]}
                        ELSE cache]

\* a tool call's response shaping sanitizes a header mapping
SanitizeCall(headers, isFromOptionalParams) ==
    /\ LET r == sanitizeHeaders(headers, isFromOptionalParams,
                                sanitizedHeadersCache, customHeaders,
                                apiKeyHeaderName)
       IN  /\ sanOut' = r.result
           /\ sanitizedHeadersCache' = r.cache
    /\ sanIn' = headers
    /\ sanFlag' = isFromOptionalParams
    /\ sanAgain' = FALSE
    /\ UNCHANGED <<customHeaders, apiKeyHeaderName, reqVars, envVars, gateVars, callVars,
                   tokenVars>>

\* the mapping the last call returned is sanitized again, with the same flag
SanitizeAgain ==
    /\ sanAgain = FALSE
    /\ LET r == sanitizeHeaders(sanOut, sanFlag, sanitizedHeadersCache,
                                customHeaders, apiKeyHeaderName)
       IN  /\ sanOut' = r.result
           /\ sanitizedHeadersCache' = r.cache
    /\ sanIn' = sanOut
    /\ sanAgain' = TRUE
    /\ UNCHANGED <<sanFlag, customHeaders, apiKeyHeaderName, reqVars, envVars, gateVars,
                   callVars, tokenVars>>

(***************************************************************************)
(* sanitizeHeaders of the dynamic-auth variant (src/unnamed/part_002): no  *)
(* cache and no sensitive set.                                             *)
(***************************************************************************)

\* one turn of its loop over Object.entries(headers)
sanitizeEntryDyn(entry, isFromOptionalParams, custom, apiKeyName) ==
    LET lowerKey == ToLowerCase(entry.name) IN
    IF isFromOptionalParams
    THEN <<entry>>
    ELSE IF lowerKey = "authorization"
            \/ (apiKeyName # "" /\ lowerKey = ToLowerCase(apiKeyName))
    THEN <<[name |-> entry.name, value |-> Redacted]>>
    ELSE IF entry.name \in custom
    THEN <<[name |-> entry.name,
            value |-> IF lowerKey \in SAFE_HEADERS THEN entry.value ELSE Redacted]>>
    ELSE <<>>

RECURSIVE sanitizeHeadersDyn(_, _, _, _)
sanitizeHeadersDyn(headers, isFromOptionalParams, custom, apiKeyName) ==
    IF headers = <<>> THEN <<>>
    ELSE sanitizeEntryDyn(Head(headers), isFromOptionalParams, custom, apiKeyName)
         \o sanitizeHeadersDyn(Tail(headers), isFromOptionalParams, custom,
                               apiKeyName)

\* the response shaping of the dynamic-auth variant sanitizes a mapping
DynSanitizeCall(headers, isFromOptionalParams) ==
    /\ dynIn' = headers
    /\ dynFlag' = isFromOptionalParams
    /\ dynOut' = sanitizeHeadersDyn(headers, isFromOptionalParams, customHeaders,
                                    apiKeyHeaderName)
    /\ UNCHANGED <<envVars, gateVars, callVars, tokenVars, sanVars, mergeVars, urlVars, truncVars, cleanVars>>

(***************************************************************************)
(* The handler's construction of config.headers: custom headers, then the  *)
(* caller's headers, then the credential of the configured auth mode.      *)
(***************************************************************************)

\* the credential sets the environment can configure; the dynamic token
\* module exists only in the dynamic-auth variant
AuthConfigs ==
    [BASIC_USERNAME : {"", "u"}, BASIC_PASSWORD : {"", "p"}, BEARER : {"", "t"},
     APIKEY_HEADER_NAME : {"", "X-Key"}, APIKEY_VALUE : {"", "k"},
     TOKEN_MODULE : BOOLEAN]

\* the custom headers the environment can configure
HeaderEnvs ==
    {<<>>,
     <<[name |-> "Accept", value |-> "c"], [name |-> "Authorization", value |-> "c"]>>}

hasBasicAuth(auth) == auth.BASIC_USERNAME # "" /\ auth.BASIC_PASSWORD # ""
hasBearerAuth(auth) == auth.BEARER # ""
hasApiKeyAuth(auth) == auth.APIKEY_HEADER_NAME # "" /\ auth.APIKEY_VALUE # ""
\* this.tokenProvider is set when AUTH_TOKEN_MODULE is
hasDynamicBearerAuth(auth) == auth.TOKEN_MODULE

\* headers[name] = value: an existing key keeps its place, a new key is appended
SetHeader(headers, name, value) ==
    IF \E i \in 1..Len(headers) : headers[i].name = name
    THEN [i \in 1..Len(headers) |->
            IF headers[i].name = name THEN [name |-> name, value |-> value]
            ELSE headers[i]]
    ELSE Append(headers, [name |-> name, value |-> value])

\* Object.assign(target, source), and { ...target, ...source }
RECURSIVE ObjectAssign(_, _)
ObjectAssign(target, source) ==
    IF source = <<>> THEN target
    ELSE ObjectAssign(SetHeader(target, Head(source).name, Head(source).value),
                      Tail(source))

\* the merge with the caller's headers below the custom headers
mergeHeaders_CallerFirst(custom, caller) ==
    ObjectAssign(ObjectAssign(<<>>, caller), custom)

\* 1. custom global headers, 2. request-specific headers
mergeHeaders(custom, caller) ==
    ObjectAssign(ObjectAssign(<<>>, custom), caller)

\* the credential header of a mode: a set with at most one [name, value]
CredentialOf(mode, auth) ==
    CASE mode = "basic" -> {[name |-> "Authorization", value |-> "Basic dTpw"]}
      [] mode = "bearer" -> {[name |-> "Authorization", value |-> "Bearer t"]}
      [] mode = "apikey" -> {[name |-> auth.APIKEY_HEADER_NAME,
                              value |-> auth.APIKEY_VALUE]}
      [] mode = "dynamic_bearer" -> {[name |-> "Authorization",
                                      value |-> "Bearer dyn"]}
      [] OTHER -> {}

\* the if / else-if chain with bearer tested before basic
injectedMode_BearerFirst(v, auth) ==
    IF hasBearerAuth(auth) THEN "bearer"
    ELSE IF hasBasicAuth(auth) THEN "basic"
    ELSE IF hasApiKeyAuth(auth) THEN "apikey"
    ELSE IF v = "dynamic" /\ hasDynamicBearerAuth(auth) THEN "dynamic_bearer"
    ELSE "none"

\* 3. authentication headers: the if / else-if chain that adds the header
injectedMode(v, auth) ==
    IF hasBasicAuth(auth) THEN "basic"
    ELSE IF hasBearerAuth(auth) THEN "bearer"
    ELSE IF hasApiKeyAuth(auth) THEN "apikey"
    ELSE IF v = "dynamic" /\ hasDynamicBearerAuth(auth) THEN "dynamic_bearer"
    ELSE "none"

\* "Determine auth method used": the chain of the response shaping
reportedAuthMethod(v, auth) ==
    IF hasBasicAuth(auth) THEN "basic"
    ELSE IF hasBearerAuth(auth) THEN "bearer"
    ELSE IF hasApiKeyAuth(auth) THEN "apikey"
    ELSE IF v = "dynamic" /\ hasDynamicBearerAuth(auth) THEN "dynamic_bearer"
    ELSE "none"

\* config.headers after the credential of the mode has been added
withCredential(headers, mode, auth) ==
    IF CredentialOf(mode, auth) = {} THEN headers
    ELSE LET cred == CHOOSE h \in CredentialOf(mode, auth) : TRUE
         IN  SetHeader(headers, cred.name, cred.value)

\* the handler builds config.headers, sends the request and shapes the envelope
BuildAndSend(caller, tokenOk) ==
    /\ mergeStage = "idle"
    /\ callerHeaders' = caller
    /\ LET mode == injectedMode(variant, AUTH) IN
       IF mode = "dynamic_bearer" /\ ~tokenOk
       THEN /\ mergeStage' = "tokenError"
            /\ UNCHANGED <<configHeaders, authMethod>>
       ELSE /\ mergeStage' = "sent"
            /\ configHeaders' = withCredential(mergeHeaders(headerEnv, caller),
                                               mode, AUTH)
            /\ authMethod' = reportedAuthMethod(variant, AUTH)
    /\ UNCHANGED <<variant, AUTH, headerEnv, envVars, gateVars, callVars, tokenVars,
                   sanVars, dynSanVars, urlVars, truncVars, cleanVars>>

\* the handler returns; the next call arrives
NextCall ==
    /\ mergeStage # "idle"
    /\ mergeStage' = "idle"
    /\ configHeaders' = <<>>
    /\ authMethod' = "none"
    /\ callerHeaders' = <<>>
    /\ UNCHANGED <<variant, AUTH, headerEnv, envVars, gateVars, callVars, tokenVars,
                   sanVars, dynSanVars, urlVars, truncVars, cleanVars>>

(***************************************************************************)
(* Validation and resolution of the request URL. A string is the sequence  *)
(* of its pieces: 'https://api.example.com/v1/' is                          *)
(* <<"https:", "//", "api.example.com", "/", "v1", "/">>.                   *)
(***************************************************************************)
EndpointTokens == {"/", "users", "http://", "HTTPS://", "www.", "localhost"}

\* the endpoint strings the calls are drawn from
Endpoints == UNION {[1..n -> EndpointTokens] : n \in 0..MaxEndpointTokens}

RECURSIVE Slashes(_)
Slashes(n) == IF n = 0 THEN <<>> ELSE <<"/">> \o Slashes(n - 1)

\* the path part of a host string as written: none, or segments and slashes
HostPaths ==
    {segments \o Slashes(n) : segments \in {<<>>, <<"/", "v1">>}, n \in 0..MaxHostSlashes}

AbsentHost ==
    [kind |-> "absent", protocol |-> "", hostname |-> "", path |-> <<>>,
     search |-> <<>>, hash |-> <<>>]

\* the host arguments: none, a URL string by its components, a string that
\* new URL() rejects, a string longer than CONFIG.MAX_URL_LENGTH
Hosts ==
    {AbsentHost, [AbsentHost EXCEPT !.kind = "unparsable"],
     [AbsentHost EXCEPT !.kind = "tooLong"]}
    \cup [kind : {"url"}, protocol : {"https:", "ftp:"},
          hostname : {"api.example.com", "localhost"}, path : HostPaths,
          search : {<<>>, <<"?q">>}, hash : {<<>>, <<"#f">>}]

\* the host string as the caller wrote it
hostInput(host) ==
    <<host.protocol, "//", host.hostname>> \o host.path \o host.search \o host.hash

UrlArgs == [method : {"GET", "TRACE"}, endpoint : Endpoints, host : Hosts]

NoArgs == [method |-> "GET", endpoint |-> <<>>, host |-> AbsentHost]

\* the values of process.env.REST_BASE_URL
BaseUrls ==
    {<<>>, <<"http:", "//", "localhost:3000">>, <<"http:", "//", "localhost:3000", "/">>}

\* CONFIG.URL_PATTERN.test(s)
URL_PATTERN_test(s) ==
    s # <<>> /\ ToLowerCase(Head(s)) \in {"http://", "https://", "www."}

\* the hostnames the SSRF check refuses
isPrivateHostname(hostname) ==
    hostname \in {"localhost", "127.0.0.1", "10.0.0.1", "192.168.1.1", "172.16.0.1"}

\* what the validation of args.host sees
hostFeature(host) ==
    IF host.kind # "url" THEN host.kind
    ELSE IF host.protocol \notin {"http:", "https:"} THEN "badScheme"
    ELSE IF isPrivateHostname(host.hostname) THEN "private"
    ELSE "public"

\* the arguments by the features isValidEndpointArgs looks at
FeaturesOf(args) ==
    [shape |-> "object", method |-> args.method, endpointIsString |-> TRUE,
     endpointTooLong |-> FALSE, endpointFullUrl |-> URL_PATTERN_test(args.endpoint),
     headers |-> "absent", host |-> hostFeature(args.host)]

RECURSIVE stripTrailingSlashes(_)
\* s.replace(/\/+$/, '')
stripTrailingSlashes(s) ==
    IF s = <<>> THEN s
    ELSE IF s[Len(s)] = "/" THEN stripTrailingSlashes(SubSeq(s, 1, Len(s) - 1))
    ELSE s

RECURSIVE stripLeadingSlashes(_)
\* s.replace(/^\/+/, '')
stripLeadingSlashes(s) ==
    IF s = <<>> THEN s
    ELSE IF Head(s) = "/" THEN stripLeadingSlashes(Tail(s))
    ELSE s

\* url.origin of new URL(hostInput)
origin(host) == <<host.protocol, "//", host.hostname>>

\* url.pathname of new URL(hostInput): "/" when the string has no path
pathname(host) == IF host.path = <<>> THEN <<"/">> ELSE host.path

\* the pathname setter of an http(s) URL: the path is never empty
setPathname(p) == IF p = <<>> THEN <<"/">> ELSE p

\* args.host as isValidEndpointArgs leaves it
normalizedHost(host) ==
    LET p == pathname(host)
    IN  IF p[Len(p)] = "/" /\ p # <<"/">>
        THEN origin(host) \o setPathname(stripTrailingSlashes(p))
        ELSE origin(host) \o p

\* `/${endpoint.replace(/^\/+|\/+$/g, '')}`
normalizedEndpoint(endpoint) ==
    <<"/">> \o stripTrailingSlashes(stripLeadingSlashes(endpoint))

\* fullUrl of the handler, for arguments that passed validation
resolveUrl(args, base) ==
    IF URL_PATTERN_test(args.endpoint) THEN args.endpoint
    ELSE LET baseUrl == IF args.host.kind # "absent" THEN normalizedHost(args.host)
                        ELSE IF base # <<>> THEN base
                        ELSE <<"undefined">>
         IN  baseUrl \o normalizedEndpoint(args.endpoint)

\* the message of the McpError a failed validation ends with; an error thrown
\* inside the try block of the host validation is replaced by the error of
\* its catch block
validationMessage(args, baseSet, privOk) ==
    IF isValidEndpointArgs(args, baseSet, privOk) = "ok" THEN ""
    ELSE IF isValidEndpointArgs(args, baseSet, privOk) = "false"
    THEN "Invalid test endpoint arguments"
    ELSE IF args.endpointTooLong THEN "Input exceeds maximum length"
    ELSE IF args.headers \in {"tooMany", "nonString", "badName", "longValue"}
    THEN "Invalid headers"
    ELSE IF ~baseSet /\ ~args.endpointFullUrl THEN "REST_BASE_URL is not configured"
    ELSE IF baseSet /\ args.endpointFullUrl THEN "REST_BASE_URL is configured"
    ELSE IF args.host = "tooLong" THEN "Input exceeds maximum length"
    ELSE "Invalid host format"

\* The handler from its entry to the construction of config.url.
ResolveUrl(args) ==
    /\ urlStage = "idle"
    /\ urlArgs' = args
    /\ urlMessage' = validationMessage(FeaturesOf(args), baseUrlSet, privateAllowed)
    /\ IF isValidEndpointArgs(FeaturesOf(args), baseUrlSet, privateAllowed) # "ok"
       THEN /\ urlStage' = "InvalidParams"
            /\ fullUrl' = <<>>
       ELSE /\ urlStage' = "sent"
            /\ fullUrl' = resolveUrl(args, REST_BASE_URL)
    /\ UNCHANGED <<REST_BASE_URL, envVars, gateVars, callVars, tokenVars, sanVars,
                   dynSanVars, mergeVars, truncVars, cleanVars>>

(***************************************************************************)
(* Truncation of the response body. A string is the sequence of its UTF-16 *)
(* code units: "a" is a character of 1 byte in UTF-8, "e2" one of 2 bytes,  *)
(* "e3" one of 3 bytes, and "H" "L" are the high and the low surrogate of a *)
(* character of 4 bytes.                                                    *)
(***************************************************************************)
CodeUnits == {"a", "e2", "e3", "H", "L"}

RECURSIVE wellFormed(_)
\* every surrogate is half of a pair
wellFormed(s) ==
    IF s = <<>> THEN TRUE
    ELSE IF Head(s) = "H"
         THEN Len(s) >= 2 /\ s[2] = "L" /\ wellFormed(Tail(Tail(s)))
    ELSE IF Head(s) = "L" THEN FALSE
    ELSE wellFormed(Tail(s))

\* the body strings: what the transport decoded, or JSON.stringify wrote
Bodies ==
    {s \in UNION {[1..n -> CodeUnits] : n \in 0..MaxBodyUnits} : wellFormed(s)}

RECURSIVE byteLength(_)
\* Buffer.byteLength(s, 'utf8'); a lone surrogate is encoded as U+FFFD, 3 bytes
byteLength(s) ==
    IF s = <<>> THEN 0
    ELSE IF Head(s) = "a" THEN 1 + byteLength(Tail(s))
    ELSE IF Head(s) = "e2" THEN 2 + byteLength(Tail(s))
    ELSE IF Head(s) = "e3" THEN 3 + byteLength(Tail(s))
    ELSE IF Head(s) = "H" /\ Len(s) >= 2 /\ s[2] = "L"
         THEN 4 + byteLength(Tail(Tail(s)))
    ELSE 3 + byteLength(Tail(s))

\* s.slice(0, n)
slice(s, n) == SubSeq(s, 1, IF n < Len(s) THEN n ELSE Len(s))

RECURSIVE truncateLoop(_, _)
\* while (currentSize > RESPONSE_SIZE_LIMIT && truncated.length > 0)
\*     truncated = truncated.slice(0, -1)
truncateLoop(s, limit) ==
    IF byteLength(s) > limit /\ Len(s) > 0
    THEN truncateLoop(SubSeq(s, 1, Len(s) - 1), limit)
    ELSE s

\* the body the variant returns for a body over the limit
truncatedBody(v, s, limit) ==
    IF v = "index" THEN truncateLoop(s, limit) ELSE slice(s, limit)

\* returnedSize and truncationPoint the variant reports
reportedSize(v, s, limit) ==
    IF v = "index" THEN byteLength(truncateLoop(s, limit)) ELSE limit

\* The handler's check of the response body size.
ShapeBody(body) ==
    /\ truncStage = "idle"
    /\ truncStage' = "shaped"
    /\ bodyStr' = body
    /\ IF byteLength(body) > RESPONSE_SIZE_LIMIT
       THEN /\ responseBody' = truncatedBody(variant, body, RESPONSE_SIZE_LIMIT)
            /\ truncated' =
                 {[originalSize |-> byteLength(body),
                   returnedSize |-> reportedSize(variant, body, RESPONSE_SIZE_LIMIT),
                   truncationPoint |-> reportedSize(variant, body, RESPONSE_SIZE_LIMIT),
                   sizeLimit |-> RESPONSE_SIZE_LIMIT]}
       ELSE /\ responseBody' = body
            /\ truncated' = {}
    /\ UNCHANGED <<RESPONSE_SIZE_LIMIT, variant, AUTH, headerEnv, callerHeaders,
                   configHeaders, authMethod, mergeStage, envVars, gateVars, callVars,
                   tokenVars, sanVars, dynSanVars, urlVars, cleanVars>>

(***************************************************************************)
(* Sanitization of the strings of a call. A string is the sequence of its  *)
(* characters: "a" a printable character, "NUL" the null byte, "SOH" a      *)
(* control character, "TAB" a whitespace control character.                 *)
(***************************************************************************)
Chars == {"a", "NUL", "SOH", "TAB"}

\* the characters of /[\x00-\x08\x0B\x0C\x0E-\x1F\x7F]/
StrippedChars == {"NUL", "SOH"}

Strings == UNION {[1..n -> Chars] : n \in 0..MaxInputChars}

\* the values of an environment variable: no null byte
EnvStrings == {str \in Strings : \A i \in 1..Len(str) : str[i] # "NUL"}

\* validateAndSanitizeInput: what it returns for a string within the length
removeControl(input) == SelectSeq(input, LAMBDA ch : ch \notin StrippedChars)

\* new URL(...): tab and newline are removed from the input
urlParse(input) == SelectSeq(input, LAMBDA ch : ch # "TAB")

NoStrings == [endpoint |-> <<>>, host |-> <<>>, headerValue |-> <<>>]

CleanArgs == [endpoint : Strings, host : Strings, headerValue : Strings]

\* The strings of a call from validation to the request configuration: the
\* endpoint is replaced by its sanitized form, the host by the parsed URL,
\* the header values are checked and used as they came.
SanitizeInputs(args) ==
    /\ cleanStage = "idle"
    /\ cleanStage' = "sent"
    /\ cleanArgs' = args
    /\ outgoing' = [endpoint |-> removeControl(args.endpoint),
                    host |-> urlParse(removeControl(args.host)),
                    headerValue |-> args.headerValue,
                    customValue |-> customValue]
    /\ UNCHANGED <<customValue, envVars, gateVars, callVars, tokenVars, sanVars,
                   dynSanVars, mergeVars, urlVars, truncVars>>

(***************************************************************************)
(* Initial states and specifications.                                      *)
(***************************************************************************)

\* no call has been sanitized
NoCleanCall ==
    /\ cleanArgs = NoStrings
    /\ outgoing = [endpoint |-> <<>>, host |-> <<>>, headerValue |-> <<>>,
                   customValue |-> <<>>]
    /\ cleanStage = "idle"

CleanIdle ==
    /\ NoCleanCall
    /\ customValue = <<"a">>

\* no response has been shaped
NoBody ==
    /\ bodyStr = <<>>
    /\ responseBody = <<>>
    /\ truncated = {}
    /\ truncStage = "idle"

TruncIdle ==
    /\ NoBody
    /\ RESPONSE_SIZE_LIMIT = MaxSizeLimit

\* no call has reached the URL construction
UrlIdle ==
    /\ urlArgs = NoArgs
    /\ urlStage = "idle"
    /\ fullUrl = <<>>
    /\ urlMessage = ""

\* a limiter after construction, no call yet
GateIdle ==
    /\ activeRequests = 0
    /\ requestHistory = <<>>
    /\ clock = 0
    /\ pc = [c \in Calls |-> "idle"]
    /\ request = [c \in Calls |-> NoRequest]
    /\ attempts = [c \in Calls |-> 0]
    /\ outcome = [c \in Calls |-> "none"]
    /\ envelope = [c \in Calls |-> NoEnvelope]
    /\ acquireCalls = [c \in Calls |-> 0]
    /\ acquireOk = [c \in Calls |-> 0]
    /\ releaseCalls = [c \in Calls |-> 0]
    /\ dispatched = [c \in Calls |-> 0]
    /\ releaseSeen = FALSE

GateInit ==
    /\ baseUrlSet = TRUE
    /\ privateAllowed = FALSE
    /\ GateIdle

\* a TokenProvider after construction, no getToken call yet
TokenInit ==
    /\ token = {}
    /\ tokenExpiresAt = {}
    /\ inflight = {}
    /\ nextSerial = 1
    /\ processAlive = TRUE
    /\ tpc = [c \in TCalls |-> "idle"]
    /\ topts = [c \in TCalls |-> FALSE]
    /\ tinv = [c \in TCalls |-> 0]
    /\ tserial = [c \in TCalls |-> 0]
    /\ tresult = [c \in TCalls |-> {}]

\* the empty sanitizer cache; HEADER_Accept and HEADER_X-Trace are set in the
\* environment and the API key travels in X-Key
SanInit ==
    /\ customHeaders = {"Accept", "X-Trace"}
    /\ apiKeyHeaderName = "X-Key"
    /\ sanitizedHeadersCache = {}
    /\ sanIn = <<>>
    /\ sanFlag = FALSE
    /\ sanOut = <<>>
    /\ sanAgain = FALSE

\* no sanitizeHeaders call of the dynamic-auth variant yet
DynSanInit ==
    /\ dynIn = <<>>
    /\ dynFlag = FALSE
    /\ dynOut = <<>>

\* a server with no credential and no custom header configured, no call yet
MergeIdle ==
    /\ callerHeaders = <<>>
    /\ configHeaders = <<>>
    /\ authMethod = "none"
    /\ mergeStage = "idle"

ReqInit ==
    /\ DynSanInit
    /\ MergeIdle
    /\ variant = "index"
    /\ AUTH = [BASIC_USERNAME |-> "", BASIC_PASSWORD |-> "", BEARER |-> "",
               APIKEY_HEADER_NAME |-> "", APIKEY_VALUE |-> "", TOKEN_MODULE |-> FALSE]
    /\ headerEnv = <<>>
    /\ UrlIdle
    /\ TruncIdle
    /\ CleanIdle
    /\ REST_BASE_URL = <<"http:", "//", "localhost:3000">>

Init == GateInit /\ TokenInit /\ SanInit /\ ReqInit

Next ==
    \/ \E c \in Calls : Receive(c)
    \/ \E c \in Calls : PollWake(c)
    \/ \E c \in Calls : Dispatch(c)
    \/ \E c \in Calls : TransportReturn(c)
    \/ \E c \in Calls : TransportFail(c)
    \/ \E c \in Calls : CatchRejected(c)
    \/ Sweep
    \/ Tick

Spec == Init /\ [][Next]_vars

TokenNext ==
    \/ \E c \in TCalls, f \in ForceRefreshValues, o \in BOOLEAN : GetToken(c, f, o)
    \/ \E c \in TCalls, shape \in TokenShapes : ProviderResolve(c, shape)
    \/ \E c \in TCalls : ProviderFail(c)
    \/ Tick

TokenSpec == Init /\ [][TokenNext]_vars

SanNext ==
    \/ \E h \in HeaderMaps, f \in BOOLEAN : SanitizeCall(h, f)
    \/ SanitizeAgain

SanSpec == Init /\ [][SanNext]_vars

DynSanNext == \E h \in HeaderMaps, f \in BOOLEAN : DynSanitizeCall(h, f)

DynSanSpec == Init /\ [][DynSanNext]_vars

\* a server of either variant under every configuration of credentials and
\* custom headers; src/src/index.ts does not read AUTH_TOKEN_MODULE
MergeInit ==
    /\ GateInit /\ TokenInit /\ SanInit /\ DynSanInit
    /\ MergeIdle
    /\ UrlIdle
    /\ TruncIdle
    /\ CleanIdle
    /\ REST_BASE_URL = <<"http:", "//", "localhost:3000">>
    /\ variant \in {"index", "dynamic"}
    /\ AUTH \in AuthConfigs
    /\ (variant = "index" => ~AUTH.TOKEN_MODULE)
    /\ headerEnv \in HeaderEnvs

MergeNext ==
    \/ \E h \in HeaderMaps, ok \in BOOLEAN : BuildAndSend(h, ok)
    \/ NextCall

MergeSpec == MergeInit /\ [][MergeNext]_vars

\* the URL construction alone, over every configuration of the base and of
\* private-network access
UrlInit ==
    /\ GateIdle /\ TokenInit /\ SanInit /\ DynSanInit
    /\ MergeIdle
    /\ variant = "index"
    /\ AUTH = [BASIC_USERNAME |-> "", BASIC_PASSWORD |-> "", BEARER |-> "",
               APIKEY_HEADER_NAME |-> "", APIKEY_VALUE |-> "", TOKEN_MODULE |-> FALSE]
    /\ headerEnv = <<>>
    /\ UrlIdle
    /\ TruncIdle
    /\ CleanIdle
    /\ REST_BASE_URL \in BaseUrls
    /\ baseUrlSet = (REST_BASE_URL # <<>>)
    /\ privateAllowed \in BOOLEAN

\* the arguments of the call that arrives: one call per run
ArrivingArgs == IF urlStage = "idle" THEN UrlArgs ELSE {}

UrlNext == \E args \in ArrivingArgs : ResolveUrl(args)

UrlSpec == UrlInit /\ [][UrlNext]_vars

\* the body check alone, in both variants and over every size limit
TruncInit ==
    /\ GateInit /\ TokenInit /\ SanInit /\ DynSanInit
    /\ MergeIdle
    /\ variant \in {"index", "dynamic"}
    /\ AUTH = [BASIC_USERNAME |-> "", BASIC_PASSWORD |-> "", BEARER |-> "",
               APIKEY_HEADER_NAME |-> "", APIKEY_VALUE |-> "", TOKEN_MODULE |-> FALSE]
    /\ headerEnv = <<>>
    /\ UrlIdle
    /\ REST_BASE_URL = <<"http:", "//", "localhost:3000">>
    /\ NoBody
    /\ RESPONSE_SIZE_LIMIT \in 1..MaxSizeLimit
    /\ CleanIdle

\* the body of the response that arrives: one response per run
ArrivingBodies == IF truncStage = "idle" THEN Bodies ELSE {}

TruncNext == \E body \in ArrivingBodies : ShapeBody(body)

TruncSpec == TruncInit /\ [][TruncNext]_vars

\* the sanitization alone, over every value of the configured header
CleanInit ==
    /\ GateInit /\ TokenInit /\ SanInit /\ DynSanInit
    /\ MergeIdle
    /\ variant = "index"
    /\ AUTH = [BASIC_USERNAME |-> "", BASIC_PASSWORD |-> "", BEARER |-> "",
               APIKEY_HEADER_NAME |-> "", APIKEY_VALUE |-> "", TOKEN_MODULE |-> FALSE]
    /\ headerEnv = <<>>
    /\ UrlIdle
    /\ REST_BASE_URL = <<"http:", "//", "localhost:3000">>
    /\ TruncIdle
    /\ NoCleanCall
    /\ customValue \in EnvStrings

\* the strings of the call that arrives: one call per run
ArrivingStrings == IF cleanStage = "idle" THEN CleanArgs ELSE {}

CleanNext == \E args \in ArrivingStrings : SanitizeInputs(args)

CleanSpec == CleanInit /\ [][CleanNext]_vars

(***************************************************************************)
(* Claims about the admission gate and the handler (specification Spec).   *)
(***************************************************************************)

\* the calls that are inside axiosInstance.request()
InTransport == {c \in Calls : pc[c] = "transport"}

\* C1: under every interleaving of concurrent test_request calls, the number
\* of calls inside the outbound transport call at the same moment never
\* exceeds the concurrency maximum, also while other calls are being rejected
\* by the gate as RateLimited or Busy.
C1_TransportWithinMax == Cardinality(InTransport) <= MaxConcurrent

\* C2: the handler calls release() exactly once for every acquire() that
\* succeeded, on every exit path, and never for an acquire() that failed.
C2_ReleaseOncePerAcquire ==
    \A c \in Calls :
        /\ releaseCalls[c] <= acquireOk[c]
        /\ (pc[c] = "done" => releaseCalls[c] = acquireOk[c])

\* the requests of the client recorded within the window that ends now
RecordedInWindow ==
    LET h == IF ClientId \in DOMAIN requestHistory
             THEN requestHistory[ClientId] ELSE <<>>
    IN  {i \in 1..Len(h) : Now - h[i] < WindowMs}

\* C3: for each client identifier at most the configured maximum of requests
\* is admitted within any trailing window, under every interleaving of
\* acquire() calls, including calls that passed the rate check and are
\* waiting for a concurrency slot.
C3_WindowBound == Cardinality(RecordedInWindow) <= MaxRequestsPerWindow

\* a step in which acquire() of call c succeeds
AdmittedStep(c) == pc[c] # "admitted" /\ pc'[c] = "admitted"

\* a step in which the poll timer of call c fires
WakeStep(c) ==
    pc[c] = "waiting" /\ (pc'[c] # pc[c] \/ attempts'[c] # attempts[c])

\* C4: after exactly N successful acquire() calls without release(), N the
\* concurrency maximum, a further acquire() does not succeed until a release()
\* occurs; a waiting acquire() that finds a slot free when it polls succeeds,
\* and it fails with Busy only when its bounded number of polls is used up
\* and no slot is free: the number of polls never exceeds the bound.
C4_BoundedWait ==
    /\ [][ (~releaseSeen /\ Cardinality({c \in Calls : acquireOk[c] = 1}) = MaxConcurrent)
             => \A c \in Calls : ~AdmittedStep(c) ]_vars
    /\ [][ \A c \in Calls :
             (WakeStep(c) /\ activeRequests < MaxConcurrent) => pc'[c] = "admitted" ]_vars
    /\ [][ \A c \in Calls :
             (WakeStep(c) /\ pc'[c] = "catch")
                => /\ outcome'[c] = "Busy"
                   /\ attempts[c] + 1 > MaxAttempts
                   /\ activeRequests >= MaxConcurrent ]_vars
    /\ [](\A c \in Calls : attempts[c] <= MaxAttempts + 1)
    /\ [](\A c \in Calls : pc[c] = "waiting" => attempts[c] <= MaxAttempts)

\* C4 witness: with every slot taken one call was refused as Busy after its
\* polls, and another call was admitted after waiting for a release.
C4_Witness ==
    \E c, d \in Calls :
        /\ pc[c] = "catch" /\ outcome[c] = "Busy"
        /\ pc[d] = "admitted" /\ attempts[d] > 0

\* arguments that are malformed or out of policy (spec 3 and 4.3)
OutOfPolicy(args) ==
    \/ args.shape # "object"
    \/ args.method \notin {"GET", "POST", "PUT", "DELETE", "PATCH"}
    \/ ~args.endpointIsString
    \/ args.endpointTooLong
    \/ args.headers \notin {"absent", "ok"}
    \/ (baseUrlSet /\ args.endpointFullUrl)
    \/ (~baseUrlSet /\ ~args.endpointFullUrl /\ args.host = "absent")
    \/ args.host \in {"tooLong", "unparsable", "badScheme"}
    \/ (args.host = "private" /\ ~privateAllowed)

\* the handler of call c has not touched the gate or the transport
GateUntouched(c) ==
    /\ acquireCalls[c] = 0
    /\ acquireOk[c] = 0
    /\ releaseCalls[c] = 0
    /\ dispatched[c] = 0

\* a step in which the handler of call c throws a protocol error at its entry
ProtocolErrorStep(c) ==
    /\ pc[c] \in {"idle", "done"}
    /\ <<pc'[c], request'[c], outcome'[c]>> # <<pc[c], request[c], outcome[c]>>
    /\ pc'[c] = "done"
    /\ outcome'[c] \in {"InvalidParams", "MethodNotFound"}

\* C5: a test_request call whose arguments are malformed or out of policy
\* fails with InvalidParams, and a call of an unknown tool with
\* MethodNotFound, before any interaction with the admission gate (no
\* acquire, no release, no recorded request) and before any dispatch.
C5_RejectedBeforeGate ==
    /\ [](\A c \in Calls :
            /\ (request[c].name = "other_tool")
                  => (pc[c] = "done" /\ outcome[c] = "MethodNotFound" /\ GateUntouched(c))
            /\ (request[c].name = "test_request" /\ OutOfPolicy(request[c].args))
                  => (pc[c] = "done" /\ outcome[c] = "InvalidParams" /\ GateUntouched(c)))
    /\ [][ \A c \in Calls :
             ProtocolErrorStep(c) => UNCHANGED <<activeRequests, requestHistory>> ]_vars

\* C5 witness: while another call holds a slot, one call has been refused as
\* InvalidParams and one as MethodNotFound.
C5_Witness ==
    \E c, d, e \in Calls :
        /\ outcome[c] = "InvalidParams" /\ pc[c] = "done"
        /\ outcome[d] = "MethodNotFound" /\ pc[d] = "done"
        /\ pc[e] = "transport" /\ activeRequests > 0


(***************************************************************************)
(* Claims about TokenProvider.getToken (specification TokenSpec).          *)
(***************************************************************************)

\* what a getToken call of c has done so far
tcallState(c) == <<tpc[c], topts[c], tinv[c], tserial[c], tresult[c]>>

\* the shared-context calls whose own provider invocation is in flight
SharedPending == {c \in TCalls : tpc[c] = "awaitOwn" /\ ~topts[c]}

\* call c enters getToken in this step
TokenCallStarts(c) ==
    /\ tpc[c] \in TResting
    /\ tcallState(c)' # tcallState(c)

\* C6: for the shared (no-options) context at most one provider invocation
\* is in flight at any moment, every shared call that arrives while it is in
\* flight waits for it and receives the result of that same invocation, and
\* a call with non-empty options always starts an invocation of its own that
\* no other call waits for.
C6_SharedCoalesced ==
    /\ [](Cardinality(SharedPending) <= 1)
    /\ [](\A d \in TCalls :
            tpc[d] = "awaitInflight" =>
                /\ ~topts[d]
                /\ \E c \in SharedPending : tserial[c] = tinv[d])
    /\ [](\A d \in TCalls :
            (tpc[d] = "returned" /\ tinv[d] # 0) =>
                /\ tresult[d] # {}
                /\ \A t \in tresult[d] : t.serial = tinv[d] /\ t.ctx = "shared")
    /\ [](\A c \in TCalls :
            (topts[c] /\ tpc[c] # "idle") =>
                /\ tserial[c] # 0
                /\ tinv[c] = 0
                /\ \A d \in TCalls \ {c} :
                      tpc[d] # "idle" => tserial[d] # tserial[c] /\ tinv[d] # tserial[c])
    /\ [][\A c \in TCalls :
            (TokenCallStarts(c) /\ ~topts'[c] /\ SharedPending # {}) =>
                /\ tpc'[c] = "awaitInflight"
                /\ \E i \in SharedPending : tinv'[c] = tserial[i]
                /\ nextSerial' = nextSerial]_vars

\* a shared invocation was joined by a second shared call, both got its
\* token, and an options call ran an invocation of its own meanwhile
C6_Witness ==
    \E c, d, e \in TCalls :
        /\ tpc[c] = "returned" /\ ~topts[c] /\ tserial[c] # 0
        /\ tpc[d] = "returned" /\ tinv[d] = tserial[c] /\ tresult[d] = tresult[c]
        /\ topts[e] /\ tpc[e] = "returned" /\ tserial[e] > tserial[c]
        /\ tresult[e] # tresult[c]

\* C7: a getToken call with non-empty options returns only the token of its
\* own invocation, never the shared cached token or a shared in-flight
\* result, and its steps leave the shared token, expiry and in-flight state
\* untouched; a no-options call never receives a token acquired for an
\* options context.
C7_OptionsIsolated ==
    /\ [](\A c \in TCalls :
            (tpc[c] = "returned" /\ topts[c]) =>
                /\ tresult[c] # {}
                /\ \A t \in tresult[c] : t.ctx = "options" /\ t.serial = tserial[c])
    /\ [](\A c \in TCalls :
            (tpc[c] = "returned" /\ ~topts[c]) =>
                \A t \in tresult[c] : t.ctx = "shared")
    /\ [](\A t \in token : t.ctx = "shared")
    /\ [][\A c \in TCalls :
            (topts'[c] /\ tcallState(c)' # tcallState(c)) =>
                UNCHANGED <<token, tokenExpiresAt, inflight>>]_vars

\* an options call completed after a shared token was cached, and a shared
\* call was served from the cache after that
C7_Witness ==
    \E c, d \in TCalls :
        /\ token # {}
        /\ topts[c] /\ tpc[c] = "returned"
        /\ \A t \in token : tserial[c] > t.serial
        /\ ~topts[d] /\ tpc[d] = "returned" /\ tserial[d] = 0 /\ tinv[d] = 0
        /\ tresult[d] = token

\* the cached token carries a numeric exp claim
NumericExp(t) == t.parts >= 2 /\ t.expType = "number"

\* a token is cached and its expiry is unknown or more than 60s away
CacheUsable ==
    /\ token # {}
    /\ \A t \in token : NumericExp(t) => t.exp * 1000 - Now > RefreshSkewMs

\* the step returned the cached token to c without invoking the provider
CacheReturn(c) ==
    /\ tpc'[c] = "returned"
    /\ tresult'[c] = token
    /\ tserial'[c] = 0
    /\ tinv'[c] = 0
    /\ nextSerial' = nextSerial
    /\ inflight' = inflight

\* C8: a shared-context getToken call without forced refresh returns the
\* cached token without invoking the provider exactly when a token is cached
\* and its expiry is unknown or more than 60s away; once a token without a
\* numeric exp claim is cached no shared acquisition happens again; a token
\* within 60s of its expiry is never returned from the cache.
C8_CachePolicy ==
    /\ [][\A c \in TCalls :
            (TokenCallStarts(c) /\ ~topts'[c]) =>
                (CacheReturn(c) <=> CacheUsable)]_vars
    /\ []((\E t \in token : ~NumericExp(t)) =>
              /\ inflight = {}
              /\ \A c \in TCalls : ~topts[c] => tpc[c] \notin {"awaitOwn", "awaitInflight"})
    /\ [][(\E t \in token : ~NumericExp(t)) => token' = token]_vars
    /\ [][\A c \in TCalls :
            (TokenCallStarts(c) /\ ~topts'[c] /\ CacheReturn(c)) =>
                \A t \in token : NumericExp(t) => Now + RefreshSkewMs < t.exp * 1000]_vars

\* a token was served from the cache, and now that it is within 60s of its
\* expiry a shared call is re-acquiring it
C8_Witness ==
    \E c, d \in TCalls :
        /\ token # {}
        /\ \A t \in token : NumericExp(t) /\ t.exp * 1000 - Now <= RefreshSkewMs
        /\ tpc[c] = "returned" /\ ~topts[c] /\ tserial[c] = 0 /\ tinv[c] = 0
        /\ tresult[c] = token
        /\ d \in SharedPending

(***************************************************************************)
(* Claims about sanitizeHeaders (specification SanSpec).                   *)
(***************************************************************************)

\* C9: the result cache has no observable effect: every call that is not
\* caller-supplied returns the mapping the uncached computation gives for
\* that call's own input, also when an earlier input had the same header
\* names with different values.
C9_CacheTransparent ==
    sanFlag = FALSE =>
        sanOut = sanitizeLoop(sanIn, FALSE, customHeaders, apiKeyHeaderName)

\* C10: sanitizing is idempotent for either value of the flag, after any
\* earlier sequence of calls: sanitizing the mapping a call returned returns
\* that mapping.
C10_Idempotent == sanAgain => sanOut = sanIn

\* the headers of the mapping that carry a credential: authorization in any
\* letter case, and the configured API-key header
IsAuthHeader(name) ==
    \/ ToLowerCase(name) = "authorization"
    \/ (apiKeyHeaderName # "" /\ ToLowerCase(name) = ToLowerCase(apiKeyHeaderName))

\* the value the mapping gives the name: a set with at most one element
ValueOf(headers, name) ==
    {headers[i].value : i \in {j \in 1..Len(headers) : headers[j].name = name}}

\* C11: in every mapping sanitized as not caller-supplied, every header named
\* authorization in any letter case, and every header with the configured
\* API-key header name, is in the output with the value '[REDACTED]'.
C11_AuthRedacted ==
    sanFlag = FALSE =>
        \A i \in 1..Len(sanIn) :
            IsAuthHeader(sanIn[i].name) =>
                ValueOf(sanOut, sanIn[i].name) = {Redacted}

\* an upper-case authorization header and the API-key header were sanitized
\* together, by a call that the cache answered
C11_Witness ==
    /\ sanFlag = FALSE
    /\ KeysOf(sanIn) = <<"AUTHORIZATION", "X-Key">>
    /\ ValueOf(sanIn, "X-Key") = {"b"}
    /\ ValueOf(sanOut, "AUTHORIZATION") = {Redacted}
    /\ ValueOf(sanOut, "X-Key") = {Redacted}
    /\ cacheHas(sanitizedHeadersCache, cacheKey(sanIn, FALSE))

\* C13: in a mapping sanitized as not caller-supplied, every header that is
\* not an auth header, not in the sensitive set and not a configured custom
\* header keeps its value, and the output has the header names of the input.
C13_UnlistedPreserved ==
    sanFlag = FALSE =>
        /\ KeysOf(sanOut) = KeysOf(sanIn)
        /\ \A i \in 1..Len(sanIn) :
              (/\ ~IsAuthHeader(sanIn[i].name)
               /\ ToLowerCase(sanIn[i].name) \notin SENSITIVE_HEADERS
               /\ sanIn[i].name \notin customHeaders)
                  => ValueOf(sanOut, sanIn[i].name) = {sanIn[i].value}

(***************************************************************************)
(* Claims about the caller-supplied flag (specification DynSanSpec).       *)
(***************************************************************************)

\* C12: when headers are sanitized as caller-supplied, every header whose
\* lower-cased name is in the sensitive set is replaced by the redaction
\* marker, and every other header is passed through with its name and value.
C12_CallerSuppliedRedacted ==
    dynFlag = TRUE =>
        /\ KeysOf(dynOut) = KeysOf(dynIn)
        /\ \A i \in 1..Len(dynIn) :
              dynOut[i].value =
                  IF ToLowerCase(dynIn[i].name) \in SENSITIVE_HEADERS
                  THEN Redacted ELSE dynIn[i].value

(***************************************************************************)
(* Claims about the header merge and the auth mode (specification          *)
(* MergeSpec).                                                             *)
(***************************************************************************)

\* the header names of a mapping
NameSet(headers) == {headers[i].name : i \in 1..Len(headers)}

\* the entries of config.headers whose name is the given one in any letter case
SameNameIgnoringCase(name) ==
    {i \in 1..Len(configHeaders) :
        ToLowerCase(configHeaders[i].name) = ToLowerCase(name)}

\* C14: a caller cannot override the injected credential: in every auth mode
\* and for every caller-supplied mapping, also one whose names differ from the
\* credential header name only in letter case, the outgoing request carries
\* exactly one header with the credential header name compared
\* case-insensitively, and its value is the injected credential.
C14_CredentialNotOverridable ==
    mergeStage = "sent" =>
        \A cred \in CredentialOf(injectedMode(variant, AUTH), AUTH) :
            /\ Cardinality(SameNameIgnoringCase(cred.name)) = 1
            /\ \A i \in SameNameIgnoringCase(cred.name) :
                  configHeaders[i].value = cred.value

Configured(mode) ==
    CASE mode = "basic" -> AUTH.BASIC_USERNAME # "" /\ AUTH.BASIC_PASSWORD # ""
      [] mode = "bearer" -> AUTH.BEARER # ""
      [] mode = "apikey" -> AUTH.APIKEY_HEADER_NAME # "" /\ AUTH.APIKEY_VALUE # ""
      [] mode = "dynamic_bearer" -> variant = "dynamic" /\ AUTH.TOKEN_MODULE
      [] OTHER -> FALSE

ModePriority == <<"basic", "bearer", "apikey", "dynamic_bearer">>

\* the first configured mode in the priority order, "none" without one
SelectedMode ==
    LET configured == {i \in 1..Len(ModePriority) : Configured(ModePriority[i])}
    IN  IF configured = {} THEN "none"
        ELSE ModePriority[CHOOSE i \in configured : \A j \in configured : i <= j]

\* C16: for every combination of configured credential sets one auth mode is
\* selected by the priority basic > bearer > apikey > dynamic > none, only
\* that mode's header is added to the merged headers, and the envelope
\* reports the mode whose header was added.
C16_OneAuthMode ==
    mergeStage = "sent" =>
        LET merged == mergeHeaders(headerEnv, callerHeaders)
            creds == CredentialOf(SelectedMode, AUTH)
        IN  /\ authMethod = SelectedMode
            /\ \A cred \in creds : ValueOf(configHeaders, cred.name) = {cred.value}
            /\ NameSet(configHeaders) = NameSet(merged) \cup {cred.name : cred \in creds}
            /\ \A n \in NameSet(configHeaders) :
                  (\A cred \in creds : cred.name # n) =>
                      ValueOf(configHeaders, n) = ValueOf(merged, n)

\* every credential set is configured at once: basic is selected, and the
\* API-key header is not added
C16_Witness ==
    /\ mergeStage = "sent"
    /\ variant = "dynamic"
    /\ \A i \in 1..Len(ModePriority) : Configured(ModePriority[i])
    /\ authMethod = "basic"
    /\ callerHeaders = <<>>
    /\ ValueOf(configHeaders, "Authorization") = {"Basic dTpw"}
    /\ "X-Key" \notin NameSet(configHeaders)

\* the call names no host, a valid method, and the base is as given
NoHostCall == urlArgs.host.kind = "absent"

\* the call names a host that passes the validation of args.host
ValidHostCall == hostFeature(urlArgs.host) = "public" /\ urlArgs.method = "GET"

\* C17: when a base origin is configured and the call gives no host, a call
\* whose endpoint begins with http://, https:// or www. (in any case) fails
\* with InvalidParams and no request URL is built, so nothing is sent.
C17_FullUrlWithBaseRejected ==
    (urlStage # "idle" /\ REST_BASE_URL # <<>> /\ NoHostCall
        /\ URL_PATTERN_test(urlArgs.endpoint))
        => (urlStage = "InvalidParams" /\ fullUrl = <<>>)

\* a call with a valid method and an upper-case full URL was rejected under a
\* configured base
C17_Witness ==
    /\ urlStage = "InvalidParams" /\ REST_BASE_URL # <<>> /\ NoHostCall
    /\ urlArgs.method = "GET"
    /\ urlArgs.endpoint = <<"HTTPS://", "users">>

\* C18: when no base origin is configured and the call gives no host, a call
\* whose endpoint does not begin with http://, https:// or www. fails with
\* InvalidParams and no request URL is built, so nothing is sent.
C18_PathWithoutBaseRejected ==
    (urlStage # "idle" /\ REST_BASE_URL = <<>> /\ NoHostCall
        /\ ~URL_PATTERN_test(urlArgs.endpoint))
        => (urlStage = "InvalidParams" /\ fullUrl = <<>>)

\* the call {method: GET, endpoint: '/users'} was rejected with no base
C18_Witness ==
    /\ urlStage = "InvalidParams" /\ REST_BASE_URL = <<>> /\ NoHostCall
    /\ urlArgs.method = "GET"
    /\ urlArgs.endpoint = <<"/", "users">>

\* C19: when no base origin is configured and the call gives a valid host, a
\* call whose endpoint is a path passes validation and is sent to the host
\* followed by the normalized endpoint.
C19_HostWithoutBaseAccepted ==
    (urlStage # "idle" /\ REST_BASE_URL = <<>> /\ ValidHostCall
        /\ ~URL_PATTERN_test(urlArgs.endpoint))
        => (/\ urlStage = "sent"
            /\ fullUrl = normalizedHost(urlArgs.host)
                            \o normalizedEndpoint(urlArgs.endpoint))

\* the host has a path segment and ends with a slash
HostPathWithTrailingSlash ==
    /\ urlArgs.host.kind = "url"
    /\ Len(urlArgs.host.path) > 2
    /\ SubSeq(urlArgs.host.path, 1, 2) = <<"/", "v1">>

\* C20: a host with a non-root path and a trailing slash is used as origin +
\* path without the trailing slash, its query and fragment dropped, and the
\* request URL is that followed by the normalized endpoint; the host
\* 'https://api.example.com/v1/' with the endpoint '/users' gives
\* 'https://api.example.com/v1/users'.
C20_HostNormalized ==
    (urlStage # "idle" /\ ValidHostCall /\ HostPathWithTrailingSlash
        /\ ~URL_PATTERN_test(urlArgs.endpoint))
        => (/\ urlStage = "sent"
            /\ fullUrl = <<urlArgs.host.protocol, "//", urlArgs.host.hostname,
                           "/", "v1">> \o normalizedEndpoint(urlArgs.endpoint)
            /\ (/\ hostInput(urlArgs.host) = <<"https:", "//", "api.example.com",
                                               "/", "v1", "/">>
                /\ urlArgs.endpoint = <<"/", "users">>)
                   => fullUrl = <<"https:", "//", "api.example.com", "/", "v1",
                                  "/", "users">>)

\* C21: for a host without a path component and a path endpoint, the request
\* URL is the origin joined to the normalized endpoint by exactly one slash;
\* the host 'https://api.example.com' with the endpoint '/users' gives
\* 'https://api.example.com/users'.
C21_RootHostOneSlash ==
    (urlStage = "sent" /\ ValidHostCall /\ urlArgs.host.path = <<>>
        /\ ~URL_PATTERN_test(urlArgs.endpoint))
        => fullUrl = <<urlArgs.host.protocol, "//", urlArgs.host.hostname>>
                        \o normalizedEndpoint(urlArgs.endpoint)

\* s is a prefix of t
IsPrefix(s, t) == Len(s) <= Len(t) /\ s = SubSeq(t, 1, Len(s))

\* C22: for a body of S bytes and a limit of L bytes: when S > L the
\* returned body has at most L bytes and the truncation record holds
\* originalSize = S, returnedSize = truncationPoint = the byte length of the
\* returned body, sizeLimit = L; when S <= L the body is returned unchanged
\* and there is no truncation record.
C22_TruncationRecord ==
    truncStage = "shaped" =>
        IF byteLength(bodyStr) > RESPONSE_SIZE_LIMIT
        THEN /\ byteLength(responseBody) <= RESPONSE_SIZE_LIMIT
             /\ truncated = {[originalSize |-> byteLength(bodyStr),
                              returnedSize |-> byteLength(responseBody),
                              truncationPoint |-> byteLength(responseBody),
                              sizeLimit |-> RESPONSE_SIZE_LIMIT]}
        ELSE /\ responseBody = bodyStr
             /\ truncated = {}

\* C23: truncation never splits a character: the returned body is a prefix
\* of the original that ends where a character of the original ends, also
\* for a character of 4 bytes (two code units). Stated of the truncation loop
\* of src/src/index.ts.
C23_WholeCharacters ==
    (truncStage = "shaped" /\ variant = "index")
        => (IsPrefix(responseBody, bodyStr) /\ wellFormed(responseBody))

\* C30: a truncated body is a prefix of the original body, and the longest
\* prefix whose byte length does not exceed the size limit.
C30_LongestPrefix ==
    (truncStage = "shaped" /\ truncated # {}) =>
        /\ IsPrefix(responseBody, bodyStr)
        /\ byteLength(responseBody) <= RESPONSE_SIZE_LIMIT
        /\ \A n \in (Len(responseBody) + 1)..Len(bodyStr) :
              byteLength(SubSeq(bodyStr, 1, n)) > RESPONSE_SIZE_LIMIT

\* the hostname a dispatched request goes to, when the call chose it: the
\* host of a full-URL endpoint, or of the host argument
targetHostname ==
    IF URL_PATTERN_test(urlArgs.endpoint)
    THEN IF Len(urlArgs.endpoint) >= 2 /\ ToLowerCase(urlArgs.endpoint[1]) # "www."
         THEN {ToLowerCase(urlArgs.endpoint[2])}
         ELSE {}
    ELSE IF urlArgs.host.kind = "url" THEN {urlArgs.host.hostname}
    ELSE {}

\* C24: when private networks are not allowed, no call dispatches a request
\* to a private or loopback hostname, whether the target comes from the host
\* argument or from a full-URL endpoint; and a host argument naming such a
\* hostname fails with InvalidParams saying that private network access is
\* not allowed.
C24_NoPrivateTarget ==
    (urlStage # "idle" /\ ~privateAllowed) =>
        /\ urlStage = "sent" => \A h \in targetHostname : ~isPrivateHostname(h)
        /\ (/\ hostFeature(urlArgs.host) = "private"
            /\ isValidEndpointArgs([FeaturesOf(urlArgs) EXCEPT !.host = "public"],
                                   baseUrlSet, privateAllowed) = "ok")
              => (/\ urlStage = "InvalidParams"
                  /\ urlMessage = "Private network access is not allowed")

\* a step in which the transport call of c ends and the handler returns
TransportEndStep(c) == pc[c] = "transport" /\ pc'[c] = "done"

AcquisitionFailStep(c) == tpc[c] = "awaitOwn" /\ tpc'[c] = "failed"

\* C27: when the token provider fails, the call that started the acquisition
\* and every call coalesced onto it fail, each for itself, and the process
\* keeps running; the cached token and its expiry are left as they were, the
\* in-flight marker is cleared, and a later call starts a fresh acquisition.
C27_ProviderFailureContained ==
    [][ \A c \in TCalls :
          AcquisitionFailStep(c) =>
             /\ processAlive'
             /\ token' = token /\ tokenExpiresAt' = tokenExpiresAt
             /\ (~topts[c] => inflight' = {})
             /\ \A d \in Waiters(tserial[c]) : ~topts[c] => tpc'[d] = "failed"
             /\ \A d \in TCalls :
                   (d # c /\ d \notin Waiters(tserial[c])) => tpc'[d] = tpc[d] ]_vars

\* C26: when a base origin is configured and the endpoint is a path, the
\* request URL is the base with its trailing slashes removed followed by the
\* normalized endpoint (one leading slash, no trailing slash), also for a
\* base that ends with '/'; the base 'http://localhost:3000' with the
\* endpoint '/users' gives 'http://localhost:3000/users'.
C26_BaseJoinedOnce ==
    (urlStage = "sent" /\ REST_BASE_URL # <<>> /\ NoHostCall
        /\ ~URL_PATTERN_test(urlArgs.endpoint))
        => fullUrl = stripTrailingSlashes(REST_BASE_URL)
                        \o <<"/">>
                        \o stripTrailingSlashes(stripLeadingSlashes(urlArgs.endpoint))

\* the string holds no null byte and no control character
Clean(str) == \A i \in 1..Len(str) : str[i] \notin StrippedChars

\* C28: after validation, no string that reaches the outgoing request (the
\* endpoint, the host, the value of a header of the call, the value of a
\* custom header of the configuration) holds a null byte or a control
\* character.
C28_OutgoingClean ==
    cleanStage = "sent" =>
        /\ Clean(outgoing.endpoint)
        /\ Clean(outgoing.host)
        /\ Clean(outgoing.headerValue)
        /\ Clean(outgoing.customValue)

====
